---- MODULE Spec2Model ----
(***************************************************************************)
(* Model of client/src/graphics/mod.rs: GraphicsDevice (device, queue,     *)
(* surface, swap chain descriptor, swap chain), FrameEncoder (one frame's  *)
(* recording, submitted by finish) and TexturedQuad (fixed geometry, bind  *)
(* group, pipeline, one indexed draw per render).                          *)
(***************************************************************************)
EXTENDS Integers, Sequences, FiniteSets, TLC

\* ---------------------------------------------------------------- bounds
MaxFrames == 2
MaxRenders == 2
MaxResizes == 2
GridScale == 2

\* ------------------------------------------------------------- constants
IndexCount == 4
InstanceCount == 1
BindGroupSlot == 0

NONE == [kind |-> "None"]

\* Sizes (u32 width and height) offered to new (the window's inner size) and
\* to resize: every mix of zero and one, and a huge one.  The code only
\* copies and compares them, it does no arithmetic on them.
Sizes == [width : {0, 1}, height : {0, 1}]
             \cup {[width |-> 2147483647, height |-> 2147483647]}

CORNFLOWER_BLUE == [r |-> 100, g |-> 149, b |-> 237, a |-> 255, per |-> 255]

VARIABLES
    pc,                     \* "start", "running" or "aborted"
    abortedAt,              \* which expect() fired: "adapter", "device", "frame"
    device, queue, surface, \* GraphicsDevice fields (handles)
    swap_chain_descriptor,  \* GraphicsDevice.swap_chain_descriptor
    swap_chain,             \* GraphicsDevice.swap_chain
    frames,                 \* the live FrameEncoder values
    submitted,              \* what Queue::submit has received, in order
    quad,                   \* the TexturedQuad, once built
    op,                     \* the last operation executed, with its input
    last_size,              \* the size most recently given to the device
    made,                   \* what new created: device, queue, surface
    stats                   \* counts of calls and of objects created

vars == <<pc, abortedAt, device, queue, surface, swap_chain_descriptor,
          swap_chain, frames, submitted, quad, op, last_size, made, stats>>

gd_vars == <<device, queue, surface, swap_chain_descriptor, swap_chain>>

\* ------------------------------------------------------ GraphicsDevice
\* device.create_swap_chain(&surface, &descriptor): a new swap chain, built
\* for that surface from a copy of the descriptor.
create_swap_chain(surf, desc, n) ==
    [kind |-> "SwapChain", id |-> n, surface |-> surf, desc |-> desc]

new_descriptor(size) ==
    [usage |-> "RENDER_ATTACHMENT",
     format |-> "Bgra8Unorm",
     width |-> size.width,
     height |-> size.height,
     present_mode |-> "Mailbox"]

Stats0 ==
    [surfaces |-> 0, swap_chains |-> 0, encoders |-> 0, begins |-> 0,
     finishes |-> 0, drops |-> 0, renders |-> 0, resizes |-> 0,
     failures |-> 0]

\* The record kept in op: the operation, its input, and whether it is a
\* resize that directly follows a resize to the same size.
Op(name, arg) ==
    [name |-> name, arg |-> arg,
     repeat |-> (name = "resize" /\ op.name = "resize" /\ op.arg = arg)]

Init ==
    /\ pc = "start"
    /\ abortedAt = "none"
    /\ device = NONE /\ queue = NONE /\ surface = NONE
    /\ swap_chain_descriptor = NONE
    /\ swap_chain = NONE
    /\ frames = {}
    /\ submitted = <<>>
    /\ quad = NONE
    /\ op = [name |-> "none", arg |-> NONE, repeat |-> FALSE]
    /\ last_size = NONE
    /\ made = NONE
    /\ stats = Stats0

Abort(where) ==
    /\ pc' = "aborted"
    /\ abortedAt' = where

\* GraphicsDevice::new(window), size being window.inner_size().  The
\* surface is made first; a missing
\* adapter or a failed device request panics (expect) before the descriptor
\* and the swap chain are built, and the locals are dropped.
new(size, adapter_ok, device_ok) ==
    /\ pc = "start"
    /\ op' = Op("new", [size |-> size, adapter_ok |-> adapter_ok, device_ok |-> device_ok])
    /\ IF ~adapter_ok
       THEN /\ Abort("adapter")
            /\ stats' = [stats EXCEPT !.surfaces = @ + 1, !.failures = @ + 1]
            /\ UNCHANGED <<gd_vars, last_size, made>>
       ELSE IF ~device_ok
       THEN /\ Abort("device")
            /\ stats' = [stats EXCEPT !.surfaces = @ + 1, !.failures = @ + 1]
            /\ UNCHANGED <<gd_vars, last_size, made>>
       ELSE /\ pc' = "running"
            /\ UNCHANGED abortedAt
            /\ surface' = [kind |-> "Surface", id |-> 1]
            /\ device' = [kind |-> "Device", id |-> 1]
            /\ queue' = [kind |-> "Queue", id |-> 1]
            /\ swap_chain_descriptor' = new_descriptor(size)
            /\ swap_chain' = create_swap_chain(surface', swap_chain_descriptor', 1)
            /\ last_size' = size
            /\ made' = [device |-> device', queue |-> queue', surface |-> surface']
            /\ stats' = [stats EXCEPT !.surfaces = @ + 1, !.swap_chains = @ + 1]
    /\ UNCHANGED <<frames, submitted, quad>>

\* Mutant: nothing stops a call on the device while a FrameEncoder lives.
borrowed_never == FALSE

\* begin_frame takes &mut self and the FrameEncoder it returns keeps that
\* borrow (queue: &'a mut Queue): while a FrameEncoder lives, no method of
\* the GraphicsDevice can be called.
borrowed == frames # {}

\* Mutant: the command encoder is created before the frame is acquired.
begin_frame_encoder_first(acquired) ==
    /\ pc = "running"
    /\ frames = {}
    /\ stats.begins < MaxFrames
    /\ op' = Op("begin_frame", acquired)
    /\ IF ~acquired
       THEN /\ Abort("frame")
            /\ stats' = [stats EXCEPT !.encoders = @ + 1, !.failures = @ + 1]
            /\ UNCHANGED frames
       ELSE /\ UNCHANGED <<pc, abortedAt>>
            /\ LET frame == [view |-> [swap_chain |-> swap_chain.id,
                                       format |-> swap_chain.desc.format]]
                   encoder == [id |-> stats.encoders + 1, passes |-> <<>>]
               IN frames' = frames \cup
                      {[queue |-> queue, frame |-> frame, encoder |-> encoder]}
            /\ stats' = [stats EXCEPT !.encoders = @ + 1, !.begins = @ + 1]
    /\ UNCHANGED <<gd_vars, submitted, quad, last_size, made>>

\* GraphicsDevice::begin_frame().  get_current_frame() failing panics
\* (expect) before the command encoder is created.
begin_frame(acquired) ==
    /\ pc = "running"
    /\ ~borrowed
    /\ stats.begins < MaxFrames
    /\ op' = Op("begin_frame", acquired)
    /\ IF ~acquired
       THEN /\ Abort("frame")
            /\ stats' = [stats EXCEPT !.failures = @ + 1]
            /\ UNCHANGED frames
       ELSE /\ UNCHANGED <<pc, abortedAt>>
            /\ LET frame == [view |-> [swap_chain |-> swap_chain.id,
                                       format |-> swap_chain.desc.format]]
                   encoder == [id |-> stats.encoders + 1, passes |-> <<>>]
               IN frames' = frames \cup
                      {[queue |-> queue, frame |-> frame, encoder |-> encoder]}
            /\ stats' = [stats EXCEPT !.encoders = @ + 1, !.begins = @ + 1]
    /\ UNCHANGED <<gd_vars, submitted, quad, last_size, made>>

\* Mutant: the height assignment is lost.
resize_descriptor_width_only(desc, new_size) ==
    [desc EXCEPT !.width = new_size.width]

\* Mutant: the descriptor is rebuilt with another present mode.
resize_descriptor_fifo(desc, new_size) ==
    [desc EXCEPT !.width = new_size.width, !.height = new_size.height,
                 !.present_mode = "Fifo"]

\* self.swap_chain_descriptor.width = ..; .height = ..
resize_descriptor(desc, new_size) ==
    [desc EXCEPT !.width = new_size.width, !.height = new_size.height]

\* Mutant: the swap chain is rebuilt before the descriptor is updated.
resize_stale_descriptor(new_size) ==
    /\ pc = "running"
    /\ frames = {}
    /\ stats.resizes < MaxResizes
    /\ op' = Op("resize", new_size)
    /\ swap_chain' = create_swap_chain(surface, swap_chain_descriptor,
                                       stats.swap_chains + 1)
    /\ swap_chain_descriptor' = resize_descriptor(swap_chain_descriptor, new_size)
    /\ last_size' = new_size
    /\ stats' = [stats EXCEPT !.swap_chains = @ + 1, !.resizes = @ + 1]
    /\ UNCHANGED <<pc, abortedAt, device, queue, surface, frames,
                   submitted, quad, made>>

\* GraphicsDevice::resize(new_size): no check of new_size.
resize(new_size) ==
    /\ pc = "running"
    /\ ~borrowed
    /\ stats.resizes < MaxResizes
    /\ op' = Op("resize", new_size)
    /\ swap_chain_descriptor' = resize_descriptor(swap_chain_descriptor, new_size)
    /\ swap_chain' = create_swap_chain(surface, swap_chain_descriptor',
                                       stats.swap_chains + 1)
    /\ last_size' = new_size
    /\ stats' = [stats EXCEPT !.swap_chains = @ + 1, !.resizes = @ + 1]
    /\ UNCHANGED <<pc, abortedAt, device, queue, surface, frames,
                   submitted, quad, made>>

\* -------------------------------------------------------- FrameEncoder
\* self.encoder.finish(): the command buffer holding what was recorded.
encoder_finish(encoder) == [id |-> encoder.id, passes |-> encoder.passes]

\* FrameEncoder::finish(self): consumes the FrameEncoder and submits its one
\* command buffer.  Each entry of submitted also notes the frame recorded
\* against and the swap chain current at the submit.
finish(fe) ==
    /\ pc = "running"
    /\ fe \in frames
    /\ op' = Op("finish", NONE)
    /\ frames' = frames \ {fe}
    /\ submitted' = Append(submitted, [buffer |-> encoder_finish(fe.encoder),
                                       frame |-> fe.frame,
                                       swap_chain |-> swap_chain.id])
    /\ stats' = [stats EXCEPT !.finishes = @ + 1]
    /\ UNCHANGED <<pc, abortedAt, gd_vars, quad, last_size, made>>

\* Mutant: a Drop impl that submits (the TODO above finish).
drop_submits(fe) ==
    /\ pc = "running"
    /\ fe \in frames
    /\ op' = Op("drop", NONE)
    /\ frames' = frames \ {fe}
    /\ submitted' = Append(submitted, [buffer |-> encoder_finish(fe.encoder),
                                       frame |-> fe.frame,
                                       swap_chain |-> swap_chain.id])
    /\ stats' = [stats EXCEPT !.drops = @ + 1]
    /\ UNCHANGED <<pc, abortedAt, gd_vars, quad, last_size, made>>

\* A FrameEncoder going out of scope without finish: there is no Drop impl,
\* so its fields are dropped and nothing reaches the queue.
drop(fe) ==
    /\ pc = "running"
    /\ fe \in frames
    /\ op' = Op("drop", NONE)
    /\ frames' = frames \ {fe}
    /\ stats' = [stats EXCEPT !.drops = @ + 1]
    /\ UNCHANGED <<pc, abortedAt, gd_vars, submitted, quad, last_size, made>>

\* -------------------------------------------------------- TexturedQuad
\* TexturedQuadVertex { pos, uv }
vertex_data ==
    << [pos |-> <<-1, -1>>, uv |-> <<0, 1>>],
       [pos |-> <<-1, 1>>, uv |-> <<0, 0>>],
       [pos |-> <<1, 1>>, uv |-> <<1, 0>>],
       [pos |-> <<1, -1>>, uv |-> <<1, 1>>] >>

\* Mutant: the indices in vertex order.
index_data_sequential == <<0, 1, 2, 3>>

index_data == <<0, 1, 3, 2>>

bind_group_layout ==
    << [binding |-> 0, visibility |-> "VERTEX", ty |-> "UniformBuffer"],
       [binding |-> 1, visibility |-> "FRAGMENT", ty |-> "Texture"],
       [binding |-> 2, visibility |-> "FRAGMENT", ty |-> "Sampler"] >>

\* entries: &[ /* all three commented out */ ]
bind_group_entries == <<>>

\* let format = wgpu::TextureFormat::R8Unorm; targets: &[format.into()]
pipeline_targets == <<"R8Unorm">>

\* TexturedQuad::new(&graphics_device): needs the device unborrowed.
TexturedQuad_new ==
    /\ pc = "running"
    /\ ~borrowed
    /\ quad = NONE
    /\ op' = Op("quad_new", NONE)
    /\ quad' = [vertex_buf |-> [usage |-> "VERTEX", contents |-> vertex_data],
                index_buf |-> [usage |-> "INDEX", contents |-> index_data],
                bind_group |-> [layout |-> bind_group_layout,
                                entries |-> bind_group_entries],
                pipeline |-> [layout |-> <<bind_group_layout>>,
                              targets |-> pipeline_targets,
                              topology |-> "TriangleStrip",
                              front_face |-> "Ccw",
                              cull_mode |-> "Front"]]
    /\ UNCHANGED <<pc, abortedAt, gd_vars, frames, submitted,
                   last_size, made, stats>>

\* Mutant: the draw is issued before the buffers are bound.
render_pass_draw_first(q, frame, call) ==
    [attachment |-> frame.view,
     load |-> <<"Clear", CORNFLOWER_BLUE>>,
     store |-> TRUE,
     commands |-> << <<"set_pipeline", q.pipeline>>,
                     <<"set_bind_group", BindGroupSlot, q.bind_group>>,
                     <<"draw_indexed", 0, IndexCount, 0, 0, InstanceCount>>,
                     <<"set_index_buffer", q.index_buf, "Uint16">>,
                     <<"set_vertex_buffer", 0, q.vertex_buf>> >>,
     call |-> call]

\* The render pass render records; call is the number of the render call.
render_pass(q, frame, call) ==
    [attachment |-> frame.view,
     load |-> <<"Clear", CORNFLOWER_BLUE>>,
     store |-> TRUE,
     commands |-> << <<"set_pipeline", q.pipeline>>,
                     <<"set_bind_group", BindGroupSlot, q.bind_group>>,
                     <<"set_index_buffer", q.index_buf, "Uint16">>,
                     <<"set_vertex_buffer", 0, q.vertex_buf>>,
                     <<"draw_indexed", 0, IndexCount, 0, 0, InstanceCount>> >>,
     call |-> call]

\* TexturedQuad::render(&self, frame_encoder)
render(fe) ==
    /\ pc = "running"
    /\ quad # NONE
    /\ fe \in frames
    /\ Len(fe.encoder.passes) < MaxRenders
    /\ op' = Op("render", NONE)
    /\ frames' = (frames \ {fe}) \cup
           {[fe EXCEPT !.encoder.passes =
                 Append(@, render_pass(quad, fe.frame, stats.renders + 1))]}
    /\ stats' = [stats EXCEPT !.renders = @ + 1]
    /\ UNCHANGED <<pc, abortedAt, gd_vars, submitted, quad, last_size, made>>

Next ==
    \/ \E size \in Sizes, a \in BOOLEAN, d \in BOOLEAN : new(size, a, d)
    \/ \E acquired \in BOOLEAN : begin_frame(acquired)
    \/ \E s \in Sizes : resize(s)
    \/ \E fe \in frames : finish(fe)
    \/ \E fe \in frames : drop(fe)
    \/ TexturedQuad_new
    \/ \E fe \in frames : render(fe)

Spec == Init /\ [][Next]_vars

\* --------------------------------------------------- primitive assembly
\* TriangleStrip: triangle i is made of the strip's indices i, i+1, i+2.
strip_triangles(idx) ==
    [i \in 1..(Len(idx) - 2) |-> <<idx[i], idx[i + 1], idx[i + 2]>>]

\* draw_indexed(0..4, 0, 0..1) over the bound buffers: the triangles drawn,
\* as triples of clip-space positions.
drawn_triangles(index_buf, vertex_buf) ==
    LET idx == SubSeq(index_buf.contents, 1, IndexCount)
        tri == strip_triangles(idx)
    IN [i \in DOMAIN tri |->
           <<vertex_buf.contents[tri[i][1] + 1].pos,
             vertex_buf.contents[tri[i][2] + 1].pos,
             vertex_buf.contents[tri[i][3] + 1].pos>>]

\* ------------------------------------------------------------- helpers
\* Clip space sampled on a grid of step 1/GridScale, one step beyond the
\* square [-1,1] x [-1,1] on every side; p stands for p / GridScale.
GridPoints == (-(GridScale + 1)..(GridScale + 1)) \X (-(GridScale + 1)..(GridScale + 1))

\* Which side of the line from a to b the point p lies on: -1, 0 or 1.
\* a and b are clip-space positions, scaled here to the grid.
EdgeSide(a, b, p) ==
    LET d == (b[1] - a[1]) * (p[2] - a[2] * GridScale)
             - (b[2] - a[2]) * (p[1] - a[1] * GridScale)
    IN IF d < 0 THEN -1 ELSE IF d > 0 THEN 1 ELSE 0

\* p is in the closed triangle t unless it has edges on both sides.
InTriangle(t, p) ==
    ~({-1, 1} \subseteq
          {EdgeSide(t[1], t[2], p), EdgeSide(t[2], t[3], p), EdgeSide(t[3], t[1], p)})

InSquare(p) ==
    /\ -GridScale <= p[1] /\ p[1] <= GridScale
    /\ -GridScale <= p[2] /\ p[2] <= GridScale

\* (the quantifier over a singleton evaluates the triangles once)
CoversSquareExactly(triangles) ==
    \A tris \in {triangles} :
        \A p \in GridPoints :
            (\E i \in DOMAIN tris : InTriangle(tris[i], p)) <=> InSquare(p)

\* P(passes, frame) of every recording there is: the open frames' and the
\* submitted ones, each with the frame it belongs to.
EveryRecording(P(_, _)) ==
    /\ \A fe \in frames : P(fe.encoder.passes, fe.frame)
    /\ \A k \in DOMAIN submitted : P(submitted[k].buffer.passes, submitted[k].frame)

\* P(pass, frame) of every recorded pass.
EveryPass(P(_, _)) ==
    EveryRecording(LAMBDA passes, frame : \A i \in DOMAIN passes : P(passes[i], frame))

\* ---------------------------------------------------------------- C1
\* C1: once new has returned, after any sequence of resize, begin_frame,
\* render and finish, the descriptor's width and height are those of the
\* size last given to the device (the window's at new, else the last
\* resize's argument, zero included), and the live swap chain is the latest
\* one created, for the device's surface, from exactly that descriptor.
C1_SwapChainMatchesLastSize ==
    device # NONE =>
        /\ last_size \in Sizes
        /\ swap_chain_descriptor.width = last_size.width
        /\ swap_chain_descriptor.height = last_size.height
        /\ (op.name = "new" => last_size = op.arg.size)
        /\ (op.name = "resize" => last_size = op.arg)
        /\ swap_chain.desc = swap_chain_descriptor
        /\ swap_chain.surface = surface
        /\ swap_chain.id = stats.swap_chains

C1_Witness ==
    /\ device # NONE
    /\ op.name = "resize"
    /\ stats.resizes = 2
    /\ last_size = [width |-> 0, height |-> 1]
    /\ Len(submitted) = 1

\* ---------------------------------------------------------------- C2
\* C2: the queue has received exactly one command buffer per finish call,
\* no FrameEncoder's buffer twice, and every begin_frame is accounted for by
\* a finish, a drop or a still open frame: a dropped FrameEncoder submits
\* nothing and raises no error.
C2_SubmitsEqualFinishes ==
    /\ Len(submitted) = stats.finishes
    /\ \A j, k \in DOMAIN submitted :
           submitted[j].buffer.id = submitted[k].buffer.id => j = k
    /\ \A k \in DOMAIN submitted : submitted[k].buffer.id \in 1..stats.encoders
    /\ \A fe \in frames, k \in DOMAIN submitted : fe.encoder.id # submitted[k].buffer.id
    /\ stats.begins = stats.finishes + stats.drops + Cardinality(frames)
    /\ (stats.drops > 0 /\ stats.failures = 0 => pc = "running")

\* One frame rendered twice and dropped, one rendered once and finished.
C2_Witness ==
    /\ stats.drops = 1
    /\ stats.finishes = 1
    /\ stats.renders = 3
    /\ frames = {}
    /\ Len(submitted) = 1
    /\ Len(submitted[1].buffer.passes) = 1

\* ---------------------------------------------------------------- C3
\* C3: a resize that directly follows a resize to the same size leaves the
\* whole descriptor as the first left it, and builds its swap chain for the
\* same surface from an equal descriptor.
C3_ResizeIdempotent ==
    [][op'.repeat =>
          /\ swap_chain_descriptor' = swap_chain_descriptor
          /\ swap_chain'.surface = swap_chain.surface
          /\ swap_chain'.desc = swap_chain.desc
          /\ swap_chain'.id # swap_chain.id]_vars

C3_Witness ==
    /\ op.repeat
    /\ op.arg = [width |-> 0, height |-> 1]
    /\ swap_chain.id = 3

\* ---------------------------------------------------------------- C4
\* C4: the bind group layout the pipeline layout uses declares as many
\* bindings as the bind group bound at slot 0 has entries.
C4_BindGroupComplete ==
    quad # NONE =>
        /\ Len(quad.pipeline.layout) = 1
        /\ quad.bind_group.layout = quad.pipeline.layout[1]
        /\ Len(quad.pipeline.layout[1]) = Len(quad.bind_group.entries)

\* ---------------------------------------------------------------- C5
\* C5: the quad's indices are 4 indices below 4 using each vertex once, the
\* strip's triangles are (v0, v1, v3) and (v1, v3, v2), the triangles drawn
\* cover exactly the square [-1,1] x [-1,1], and geometry and indices are
\* the same whatever the swap chain's size, in the quad and in every pass.
C5_QuadCoversClipSpace ==
    quad # NONE =>
        LET idx == quad.index_buf.contents
            vtx == quad.vertex_buf.contents
        IN /\ Len(idx) = 4 /\ Len(vtx) = 4
           /\ \A i \in DOMAIN idx : idx[i] \in 0..3
           /\ \A v \in 0..3 : Cardinality({i \in DOMAIN idx : idx[i] = v}) = 1
           /\ [i \in DOMAIN vtx |-> vtx[i].pos]
                  = << <<-1, -1>>, <<-1, 1>>, <<1, 1>>, <<1, -1>> >>
           /\ strip_triangles(idx) = << <<0, 1, 3>>, <<1, 3, 2>> >>
           /\ CoversSquareExactly(drawn_triangles(quad.index_buf, quad.vertex_buf))
           /\ EveryPass(LAMBDA pass, frame :
                  /\ pass.commands[3][2] = quad.index_buf
                  /\ pass.commands[4][3] = quad.vertex_buf)

\* The quad drawn into two swap chains of different sizes.
C5_Witness ==
    /\ quad # NONE
    /\ Len(submitted) = 2
    /\ Len(submitted[1].buffer.passes) > 0
    /\ Len(submitted[2].buffer.passes) > 0
    /\ submitted[1].swap_chain # submitted[2].swap_chain
    /\ swap_chain_descriptor.width = 0

\* ---------------------------------------------------------------- C6
\* C6: a failed adapter request, device request or frame acquisition ends
\* the run at once and for good: the failed call is the last operation;
\* after a failed new there is no device, queue, descriptor or swap chain
\* and none was ever created; after a failed begin_frame no command encoder
\* was created for it, no FrameEncoder exists and nothing was submitted by it.
C6_FailuresAreFatal ==
    /\ (pc = "aborted") = (stats.failures > 0)
    /\ stats.failures <= 1
    /\ (pc = "aborted") = (abortedAt # "none")
    /\ (op.name = "new" /\ ~(op.arg.adapter_ok /\ op.arg.device_ok)) =>
           /\ pc = "aborted"
           /\ abortedAt = (IF op.arg.adapter_ok THEN "device" ELSE "adapter")
           /\ device = NONE /\ queue = NONE /\ surface = NONE
           /\ swap_chain_descriptor = NONE /\ swap_chain = NONE
           /\ stats.swap_chains = 0
    /\ (op.name = "begin_frame" /\ ~op.arg) =>
           /\ pc = "aborted"
           /\ abortedAt = "frame"
           /\ frames = {}
           /\ stats.encoders = stats.begins
           /\ Len(submitted) = stats.finishes
    /\ pc = "aborted" =>
           \/ op.name = "new" /\ ~(op.arg.adapter_ok /\ op.arg.device_ok)
           \/ op.name = "begin_frame" /\ ~op.arg

C6_Witness ==
    /\ pc = "aborted"
    /\ abortedAt = "frame"
    /\ stats.finishes = 1
    /\ stats.resizes = 1

\* ---------------------------------------------------------------- C7
PassAsRendered(pass, frame) ==
    /\ pass.attachment = frame.view
    /\ pass.load = <<"Clear", [r |-> 100, g |-> 149, b |-> 237, a |-> 255, per |-> 255]>>
    /\ pass.store
    /\ pass.commands =
           << <<"set_pipeline", quad.pipeline>>,
              <<"set_bind_group", 0, quad.bind_group>>,
              <<"set_index_buffer", quad.index_buf, "Uint16">>,
              <<"set_vertex_buffer", 0, quad.vertex_buf>>,
              <<"draw_indexed", 0, 4, 0, 0, 1>> >>

C7_Recorded ==
    /\ EveryPass(PassAsRendered)
    /\ EveryRecording(LAMBDA passes, frame :
           \A i, j \in DOMAIN passes : i < j => passes[i].call < passes[j].call)
    /\ \A j, k \in DOMAIN submitted :
           j < k => \A a \in DOMAIN submitted[j].buffer.passes,
                       b \in DOMAIN submitted[k].buffer.passes :
                        submitted[j].buffer.passes[a].call < submitted[k].buffer.passes[b].call

C7_Step ==
    /\ op'.name = "render" =>
           /\ submitted' = submitted
           /\ \E fe \in frames, fe2 \in frames' :
                  LET n == Len(fe.encoder.passes) IN
                  /\ Len(fe2.encoder.passes) = n + 1
                  /\ fe2.encoder.passes[n + 1].call = stats.renders + 1
                  /\ fe2 = [fe EXCEPT !.encoder.passes =
                                Append(@, fe2.encoder.passes[n + 1])]
                  /\ frames' = (frames \ {fe}) \cup {fe2}
    /\ submitted' # submitted =>
           /\ op'.name = "finish"
           /\ \E fe \in frames :
                  /\ Len(submitted') = Len(submitted) + 1
                  /\ SubSeq(submitted', 1, Len(submitted)) = submitted
                  /\ submitted'[Len(submitted')].buffer.passes = fe.encoder.passes
                  /\ submitted'[Len(submitted')].frame = fe.frame

\* C7: every recorded pass clears the frame's own view to the fixed colour
\* and holds set pipeline, set bind group 0, set index buffer, set vertex
\* buffer and one draw of 4 indices and 1 instance, in that order; a render
\* appends exactly one such pass to one open frame and submits nothing;
\* the queue grows only by a finish, which hands over the frame's passes
\* unchanged, so passes are submitted in the order of the render calls.
C7_RenderRecordsOnePass == []C7_Recorded /\ [][C7_Step]_vars

C7_Witness ==
    /\ Len(submitted) = 2
    /\ Len(submitted[1].buffer.passes) = 2
    /\ Len(submitted[2].buffer.passes) = 1

\* ---------------------------------------------------------------- C8
C8_Fixed ==
    device # NONE =>
        /\ swap_chain_descriptor.usage = "RENDER_ATTACHMENT"
        /\ swap_chain_descriptor.format = "Bgra8Unorm"
        /\ swap_chain_descriptor.present_mode = "Mailbox"
        /\ made = [device |-> device, queue |-> queue, surface |-> surface]

C8_Step ==
    /\ op'.name = "resize" =>
           /\ swap_chain_descriptor' =
                  [swap_chain_descriptor EXCEPT !.width = swap_chain_descriptor'.width,
                                                !.height = swap_chain_descriptor'.height]
           /\ UNCHANGED <<device, queue, surface, frames, submitted, quad>>
    /\ op'.name \in {"begin_frame", "render", "finish", "drop", "quad_new"} =>
           UNCHANGED <<swap_chain_descriptor, swap_chain>>

\* C8: resize changes the descriptor's width and height and the swap chain
\* only: usage, format and present mode stay as new set them, device, queue
\* and surface stay the ones new created, and begin_frame, render and
\* finish leave the descriptor (and the swap chain) alone.
C8_ResizeChangesOnlySize == []C8_Fixed /\ [][C8_Step]_vars

C8_Witness ==
    /\ stats.resizes = 2
    /\ stats.finishes = 1
    /\ swap_chain_descriptor.width = 0
    /\ swap_chain_descriptor.height = 0

\* ---------------------------------------------------------------- C9
\* C9: at most one FrameEncoder lives at a time; while one lives the last
\* operation is the begin_frame that made it or a render (never a resize or
\* another call on the device) and its frame comes from the current swap
\* chain; every submitted buffer's frame came from the swap chain that was
\* current when it was submitted.
C9_OneFrameOneSwapChain ==
    /\ Cardinality(frames) <= 1
    /\ \A fe \in frames :
           /\ op.name \in {"begin_frame", "render"}
           /\ fe.frame.view.swap_chain = swap_chain.id
           /\ fe.queue = queue
    /\ \A k \in DOMAIN submitted :
           /\ submitted[k].frame.view.swap_chain = submitted[k].swap_chain
           /\ submitted[k].swap_chain <= swap_chain.id
           /\ \A i \in DOMAIN submitted[k].buffer.passes :
                  submitted[k].buffer.passes[i].attachment.swap_chain
                      = submitted[k].swap_chain

\* A frame open on the third swap chain, after one submitted on the second.
C9_Witness ==
    /\ Cardinality(frames) = 1
    /\ swap_chain.id = 3
    /\ Len(submitted) = 1
    /\ submitted[1].swap_chain = 2
    /\ Len(submitted[1].buffer.passes) > 0

\* --------------------------------------------------------------- C10
\* C10: the pipeline's single colour target has the format of the swap
\* chain descriptor, and so of every frame view a pass binds it to.
C10_PipelineTargetMatchesSwapChain ==
    quad # NONE =>
        /\ quad.pipeline.targets = <<swap_chain_descriptor.format>>
        /\ EveryPass(LAMBDA pass, frame :
               pass.commands[1][2].targets = <<pass.attachment.format>>)
====
